---- MODULE Spec2Model ----
(***************************************************************************)
(* Model of jagent/Script/jenkins-agent-automation.py: one run of main()   *)
(* (token fetch, existence check, conditional registration, agent.jar      *)
(* download, platform service installation, monitor loop with e-mail       *)
(* alerts).  The Jenkins server, the file system, the host service manager *)
(* and the mail relay are the environment: their answers are drawn with \E.*)
(*                                                                         *)
(* Strings built with f-strings are sequences of their pieces, so that     *)
(* "contains" and "is the same name" are decided by the pieces.            *)
(* A call's result is a record: kind "return" with its value, or the kind  *)
(* of the exception it raised with its message.                            *)
(***************************************************************************)
EXTENDS Integers, Sequences, FiniteSets, TLC

\* Bound of the model: the monitor loop is infinite; the model stops polling
\* after MaxPolls polls.
MaxPolls == 3

AgentNames == {"worker-1", "build-2"}
Platforms == {"Linux", "Windows", "Darwin"}

\* HTTP answers of the server. 0 stands for "no HTTP answer": requests raised
\* ConnectionError/Timeout (a RequestException) instead of returning.
HttpAnswers == {0, 200, 201, 403, 404, 500}

\* Exit codes of the status command (negative: killed by a signal).
ReturnCodes == {-9, 0, 1, 3}

Return(v) == [kind |-> "return", val |-> v]
Raise(k, m) == [kind |-> k, val |-> m]

\* `except Exception` catches everything but SystemExit and KeyboardInterrupt.
IsException(kind) == kind \notin {"return", "SystemExit", "KeyboardInterrupt"}

\* `except requests.exceptions.RequestException`
IsRequestException(kind) == kind \in {"ConnectionError", "HTTPError"}

\* response = requests.get/post(...); response.raise_for_status()
RaiseForStatus(status) ==
    IF status = 0 THEN Raise("ConnectionError", "no answer")
    ELSE IF status >= 400 /\ status < 600 THEN Raise("HTTPError", "error status")
    ELSE Return("response")

\* get_csrf_token: bodyOk says whether the answer is JSON holding both
\* crumbRequestField and crumb.
get_csrf_token(status, bodyOk) ==
    LET r == RaiseForStatus(status) IN
    IF IsRequestException(r.kind) THEN Raise("SystemExit", "Error retrieving CSRF token")
    ELSE IF ~bodyOk THEN Raise("KeyError", "crumb")
    ELSE Return("csrf_token")

\* A check_agent_exists without its else branch: any other status reads as
\* "does not exist".
check_agent_exists_lenient(status) ==
    IF status = 0 THEN Raise("SystemExit", "Error checking if agent exists")
    ELSE IF status = 200 THEN Return("True")
    ELSE Return("False")

\* check_agent_exists: no raise_for_status here, the status code is compared.
check_agent_exists(status) ==
    IF status = 0 THEN Raise("SystemExit", "Error checking if agent exists")
    ELSE IF status = 200 THEN Return("True")
    ELSE IF status = 404 THEN Return("False")
    ELSE Raise("SystemExit", "Error: Unexpected response code")

\* main with the `not` of the gate dropped.
ShouldCreateAgentInverted(exists) == exists = "True"

\* main without the gate: the agent is created whatever the check returned.
ShouldCreateAgentAlways(exists) == exists \in {"True", "False"}

\* main: `if not check_agent_exists(...)`; exists is the value returned.
ShouldCreateAgent(exists) == exists = "False"

\* create_agent
create_agent(status) ==
    LET r == RaiseForStatus(status) IN
    IF IsRequestException(r.kind) THEN Raise("SystemExit", "Error creating agent")
    ELSE IF status = 200 THEN Return("None")
    ELSE Raise("SystemExit", "Error: Failed to create agent")

\* download_agent_jar: dirExisted is os.path.exists(remote_fs); mkdirOk, status
\* and writeOk are what makedirs, the GET of agent.jar and open/write answer.
download_agent_jar(dirExisted, mkdirOk, status, writeOk) ==
    IF ~dirExisted /\ ~mkdirOk THEN Raise("SystemExit", "Error creating directory")
    ELSE LET r == RaiseForStatus(status) IN
         IF IsRequestException(r.kind) THEN Raise("SystemExit", "Error downloading agent.jar")
         ELSE IF ~writeOk THEN Raise("OSError", "open agent.jar")
         ELSE Return("jar_path")

\* Names of the services, as the f-strings build them.
LinuxUnitName(agent) == <<agent, ".service">>
WindowsServiceName(agent) == <<agent, "_service">>

\* create_linux_service: the commands run after the unit file is written.
LinuxCommands == <<"systemctl daemon-reload", "systemctl enable", "systemctl start">>

\* create_windows_service: the commands run through NSSM.
WindowsCommands == <<"nssm install", "nssm start">>

\* The commands of cmds that run when the one at position failAt fails
\* (check=True raises at the first failure); failAt > Len(cmds): none fails.
CommandsRun(cmds, failAt) ==
    SubSeq(cmds, 1, IF failAt > Len(cmds) THEN Len(cmds) ELSE failAt)

\* create_linux_service: failAt = 0 is a failure to write the unit file,
\* failAt = i the failure of the i-th systemctl command.
create_linux_service(failAt) ==
    IF failAt <= Len(LinuxCommands)
    THEN Raise("SystemExit", "Failed to create and start the systemd service")
    ELSE Return("None")

\* create_windows_service: failAt = i is the failure of the i-th nssm command.
create_windows_service(failAt) ==
    IF failAt <= Len(WindowsCommands)
    THEN Raise("SystemExit", "Failed to create and start the Windows service")
    ELSE Return("None")

\* monitor_service: the service named by service_status_cmd; <<>> is the
\* empty command list left on any other platform.
StatusCmdService(plat, agent) ==
    IF plat = "Linux" THEN <<agent, ".service">>
    ELSE IF plat = "Windows" THEN <<agent>>
    ELSE <<>>

\* A monitor that takes only positive codes for failures.
IsFailurePositive(rc) == rc > 0

\* A monitor that takes only the code 1 for a failure.
IsFailureOne(rc) == rc = 1

\* monitor_service: `if result.returncode != 0`
IsFailure(rc) == rc # 0

\* monitor_service: subject = f"Service Failure: {agent_name}"
Subject(agent) == <<"Service Failure: ", agent>>

\* A send_email whose handler logs the error and returns.
send_email_logs_only(portSet, smtpOk) ==
    IF ~portSet THEN Raise("TypeError", "int() argument") ELSE Return("None")

\* send_email: int(os.getenv('SMTP_PORT')) is outside the try; connecting,
\* starttls, login and sendmail are inside it (smtpOk: all of them succeed).
send_email(portSet, smtpOk) ==
    IF ~portSet THEN Raise("TypeError", "int() argument")
    ELSE IF ~smtpOk THEN Raise("SystemExit", "Error sending email")
    ELSE Return("None")

\* monitor_service: `except Exception as e: raise SystemExit(...)` around the loop.
MonitorExcept(r) ==
    IF IsException(r.kind) THEN Raise("SystemExit", "Error monitoring service") ELSE r

\* A main that logs the error of a step and goes on to the next one.
PropagateSwallow(r, here, next) == next

\* A main that tries a failed step again.
PropagateRetry(r, here, next) == IF r.kind = "return" THEN next ELSE here

\* main: the try of main catches KeyboardInterrupt only, so any other exception
\* of a call ends the process; a call that returns goes on to `next`.
Propagate(r, here, next) == IF r.kind = "return" THEN next ELSE "exit"

VARIABLES
    pc,                 \* the statement of main / monitor_service about to run
    platform,           \* platform.system()
    agent_name,         \* args.agent_name
    registered,         \* the server holds a node of that name
    dirExists,          \* os.path.exists(remote_fs)
    smtpPortSet,        \* SMTP_PORT is set in the environment
    exists,             \* what check_agent_exists returned ("none": not yet)
    exit,               \* the exception that ended the process (kind "return": none)
    failedOp,           \* the operation whose failure ended the process
    calls,              \* per operation, the number of times it was invoked
    done,               \* the operations that returned normally
    checkStatus,        \* the status the per-node endpoint answered (0: none)
    dirCreated,         \* os.makedirs(remote_fs) was done
    jarWritten,         \* agent.jar was written
    unitFile,           \* the unit file written: the name of its service, or <<>>
    procs,              \* the subprocesses the installer started, in order
    startedService,     \* the service the installer started, or <<>>
    service_status_cmd, \* the service the monitor's status command names
    polls,              \* status commands run by the monitor
    failedPolls,        \* polls whose status command returned a non-zero code
    returncode,         \* result.returncode of the last poll
    event,              \* the branch the last poll took: RUNNING or FAILED
    emailsSent,         \* notifications the relay accepted
    sendFailures,       \* sends the relay refused (connect, starttls, login or sendmail)
    subject,            \* the subject of the last notification
    infoLogs            \* "running normally" lines logged

vars == <<pc, platform, agent_name, registered, dirExists, smtpPortSet, exists,
          exit, failedOp, calls, done, checkStatus, dirCreated, jarWritten,
          unitFile, procs, startedService, service_status_cmd, polls, failedPolls, returncode,
          event, emailsSent, sendFailures, subject, infoLogs>>

Operations == {"get_csrf_token", "check_agent_exists", "create_agent",
               "download_agent_jar", "install_service", "send_email"}

envVars == <<platform, agent_name, smtpPortSet>>
serverVars == <<registered, exists, checkStatus>>
fsVars == <<dirExists, dirCreated, jarWritten, unitFile>>
monitorVars == <<service_status_cmd, polls, failedPolls, returncode, event,
                 emailsSent, sendFailures, subject, infoLogs>>

Init ==
    /\ pc = "get_csrf_token"
    /\ platform \in Platforms
    /\ agent_name \in AgentNames
    /\ registered \in BOOLEAN
    /\ dirExists \in BOOLEAN
    /\ smtpPortSet \in BOOLEAN
    /\ exists = "none"
    /\ exit = Return("running")
    /\ failedOp = "none"
    /\ calls = [op \in Operations |-> 0]
    /\ done = {}
    /\ checkStatus = 0
    /\ dirCreated = FALSE
    /\ jarWritten = FALSE
    /\ unitFile = <<>>
    /\ procs = <<>>
    /\ startedService = <<>>
    /\ service_status_cmd = <<>>
    /\ polls = 0
    /\ failedPolls = 0
    /\ returncode = 0
    /\ event = "none"
    /\ emailsSent = 0
    /\ sendFailures = 0
    /\ subject = <<>>
    /\ infoLogs = 0

\* The call of operation op made at `here` gave r: count it, and go on to
\* `next` or end the process with r.
Called(op, r, here, next) ==
    /\ calls' = [calls EXCEPT ![op] = @ + 1]
    /\ done' = IF r.kind = "return" THEN done \cup {op} ELSE done
    /\ pc' = Propagate(r, here, next)
    /\ exit' = IF pc' = "exit" THEN r ELSE exit
    /\ failedOp' = IF r.kind = "return" THEN failedOp ELSE op

\* main, step 1: csrf_token = get_csrf_token(...)
main_get_csrf_token ==
    /\ pc = "get_csrf_token"
    /\ \E status \in HttpAnswers, bodyOk \in BOOLEAN :
          Called("get_csrf_token", get_csrf_token(status, bodyOk),
                 "get_csrf_token", "check_agent_exists")
    /\ UNCHANGED <<envVars, serverVars, fsVars, procs, startedService, monitorVars>>

\* The status the per-node endpoint can answer: 200 for a registered node,
\* 404 for an unknown one, or an error of the server or the network.
NodeAnswers == {IF registered THEN 200 ELSE 404, 0, 403, 500}

\* main, step 2: if not check_agent_exists(...)
main_check_agent_exists ==
    /\ pc = "check_agent_exists"
    /\ \E status \in NodeAnswers :
          LET r == check_agent_exists(status) IN
          /\ checkStatus' = status
          /\ exists' = IF r.kind = "return" THEN r.val ELSE exists
          /\ Called("check_agent_exists", r, "check_agent_exists",
                    IF ShouldCreateAgent(r.val) THEN "create_agent"
                    ELSE "install_agent_service")
    /\ UNCHANGED <<envVars, registered, fsVars, procs, startedService, monitorVars>>

\* main, step 3: create_agent(...)
main_create_agent ==
    /\ pc = "create_agent"
    /\ \E status \in HttpAnswers :
          LET r == create_agent(status) IN
          /\ registered' = (registered \/ status \in {200, 201})
          /\ Called("create_agent", r, "create_agent", "install_agent_service")
    /\ UNCHANGED <<envVars, exists, checkStatus, fsVars, procs, startedService, monitorVars>>

\* install_agent_service, first half: current_platform = platform.system();
\* jar_path = download_agent_jar(...), whatever the platform is.
install_download ==
    /\ pc = "install_agent_service"
    /\ \E mkdirOk \in BOOLEAN, status \in HttpAnswers, writeOk \in BOOLEAN :
          LET r == download_agent_jar(dirExists, mkdirOk, status, writeOk) IN
          /\ dirCreated' = (dirCreated \/ (~dirExists /\ mkdirOk))
          /\ dirExists' = (dirExists \/ mkdirOk)
          /\ jarWritten' = (jarWritten \/ r.kind = "return")
          /\ Called("download_agent_jar", r, "install_agent_service", "platform_dispatch")
    /\ UNCHANGED <<envVars, serverVars, unitFile, procs, startedService, monitorVars>>

\* install_agent_service, `if current_platform == "Linux"`: create_linux_service
install_linux ==
    /\ pc = "platform_dispatch"
    /\ platform = "Linux"
    /\ \E failAt \in 0 .. Len(LinuxCommands) + 1 :
          LET r == create_linux_service(failAt) IN
          /\ unitFile' = IF failAt = 0 THEN unitFile ELSE LinuxUnitName(agent_name)
          /\ procs' = procs \o CommandsRun(LinuxCommands, failAt)
          /\ startedService' = IF r.kind = "return" THEN LinuxUnitName(agent_name)
                                ELSE startedService
          /\ Called("install_service", r, "platform_dispatch", "monitor_service")
    /\ UNCHANGED <<envVars, serverVars, dirExists, dirCreated, jarWritten, monitorVars>>

\* install_agent_service, `elif current_platform == "Windows"`: create_windows_service
install_windows ==
    /\ pc = "platform_dispatch"
    /\ platform = "Windows"
    /\ \E failAt \in 1 .. Len(WindowsCommands) + 1 :
          LET r == create_windows_service(failAt) IN
          /\ procs' = procs \o CommandsRun(WindowsCommands, failAt)
          /\ startedService' = IF r.kind = "return" THEN WindowsServiceName(agent_name)
                                ELSE startedService
          /\ Called("install_service", r, "platform_dispatch", "monitor_service")
    /\ UNCHANGED <<envVars, serverVars, fsVars, monitorVars>>

\* install_agent_service, `else: raise SystemExit(f"Unsupported platform: ...")`
install_unsupported ==
    /\ pc = "platform_dispatch"
    /\ platform \notin {"Linux", "Windows"}
    /\ Called("install_service", Raise("SystemExit", "Unsupported platform"),
              "platform_dispatch", "monitor_service")
    /\ UNCHANGED <<envVars, serverVars, fsVars, procs, startedService, monitorVars>>

\* monitor_service, before the loop: service_status_cmd is chosen by platform.
monitor_enter ==
    /\ pc = "monitor_service"
    /\ service_status_cmd' = StatusCmdService(platform, agent_name)
    /\ pc' = "poll"
    /\ UNCHANGED <<envVars, serverVars, exit, failedOp, calls, done, fsVars, procs,
                   startedService, polls, failedPolls, returncode, event,
                   emailsSent, sendFailures, subject, infoLogs>>

\* monitor_service, one iteration up to the branch on result.returncode.
\* ran = FALSE: subprocess.run itself raised (always so for an empty command).
monitor_poll ==
    /\ pc = "poll"
    /\ polls' = polls + 1
    /\ \E ran \in BOOLEAN, rc \in ReturnCodes :
          IF ran /\ service_status_cmd # <<>>
          THEN /\ returncode' = rc
               /\ failedPolls' = IF rc # 0 THEN failedPolls + 1 ELSE failedPolls
               /\ event' = IF IsFailure(rc) THEN "FAILED" ELSE "RUNNING"
               /\ infoLogs' = IF IsFailure(rc) THEN infoLogs ELSE infoLogs + 1
               /\ pc' = IF IsFailure(rc) THEN "send_email" ELSE "sleep"
               /\ UNCHANGED <<exit, failedOp>>
          ELSE /\ pc' = "exit"
               /\ exit' = MonitorExcept(Raise("OSError", "subprocess.run"))
               /\ failedOp' = "status_command"
               /\ UNCHANGED <<returncode, failedPolls, event, infoLogs>>
    /\ UNCHANGED <<envVars, serverVars, calls, done, fsVars, procs, startedService,
                   service_status_cmd, emailsSent, sendFailures, subject>>

\* monitor_service, the failure branch: send_email(subject, body)
monitor_send_email ==
    /\ pc = "send_email"
    /\ subject' = Subject(agent_name)
    /\ \E smtpOk \in BOOLEAN :
          LET sent == send_email(smtpPortSet, smtpOk) IN
          /\ emailsSent' = IF smtpPortSet /\ smtpOk THEN emailsSent + 1 ELSE emailsSent
          /\ sendFailures' = IF smtpPortSet /\ ~smtpOk THEN sendFailures + 1
                              ELSE sendFailures
          /\ Called("send_email", MonitorExcept(sent), "send_email", "sleep")
    /\ UNCHANGED <<envVars, serverVars, fsVars, procs, startedService,
                   service_status_cmd, polls, failedPolls, returncode, event, infoLogs>>

\* monitor_service: time.sleep(20), then the next iteration of `while True`.
monitor_sleep ==
    /\ pc = "sleep"
    /\ polls < MaxPolls
    /\ pc' = "poll"
    /\ UNCHANGED <<envVars, serverVars, exit, failedOp, calls, done, fsVars, procs,
                   startedService, monitorVars>>

\* main: `except KeyboardInterrupt: ... sys.exit(1)`, at any point of the run.
keyboard_interrupt ==
    /\ pc # "exit"
    /\ pc' = "exit"
    /\ exit' = Raise("KeyboardInterrupt", "Script interrupted by user.")
    /\ UNCHANGED <<envVars, serverVars, failedOp, calls, done, fsVars, procs,
                   startedService, monitorVars>>

\* The steps of the program itself.
Run ==
    \/ main_get_csrf_token
    \/ main_check_agent_exists
    \/ main_create_agent
    \/ install_download
    \/ install_linux
    \/ install_windows
    \/ install_unsupported
    \/ monitor_enter
    \/ monitor_poll
    \/ monitor_send_email
    \/ monitor_sleep

Next == Run \/ keyboard_interrupt

Spec == Init /\ [][Next]_vars

\* A run the user does not interrupt, in which every call answers in the end.
LiveSpec == Init /\ [][Run]_vars /\ WF_vars(Run)

----------------------------------------------------------------------------
\* Properties.

\* The string s, as the sequence of its pieces, contains the piece p.
Contains(s, p) == \E i \in 1 .. Len(s) : s[i] = p

\* The monitor phase: monitor_service has been entered.
InMonitor == pc \in {"monitor_service", "poll", "send_email", "sleep"} \/ polls > 0

\* C1: in a run where the token fetch succeeded and check_agent_exists returned
\* False (the status GET answered 404), create_agent is then invoked, and it is
\* invoked exactly once: never twice, and once the run is past the call the
\* count is one.
C1_RegisterExactlyOnce ==
    /\ [](calls["create_agent"] <= 1)
    /\ [](exists = "False" =>
            /\ checkStatus = 404
            /\ "get_csrf_token" \in done
            /\ (pc # "create_agent" => calls["create_agent"] = 1))
    /\ (exists = "False") ~> (calls["create_agent"] = 1)

C1_Witness ==
    /\ exists = "False"
    /\ checkStatus = 404
    /\ calls["create_agent"] = 1
    /\ "create_agent" \in done
    /\ polls > 0

\* C2: in a run where check_agent_exists saw HTTP 200 and returned True,
\* create_agent is never invoked.
C2_RegisteredNeverCreated ==
    (exists = "True" \/ checkStatus = 200) =>
        /\ exists = "True"
        /\ calls["create_agent"] = 0
        /\ pc # "create_agent"

C2_Witness ==
    /\ exists = "True"
    /\ checkStatus = 200
    /\ polls = MaxPolls
    /\ calls["create_agent"] = 0

\* C3: install_agent_service on a platform that is neither Linux nor Windows
\* fails with the unsupported-platform error having created no directory,
\* written no agent.jar and no unit file, and started no subprocess.
C3_UnsupportedNoSideEffects ==
    (platform \notin {"Linux", "Windows"} /\ calls["install_service"] > 0) =>
        /\ exit = Raise("SystemExit", "Unsupported platform")
        /\ ~dirCreated
        /\ ~jarWritten
        /\ unitFile = <<>>
        /\ procs = <<>>

\* C4: in the monitor loop every poll whose status command returned a non-zero
\* code is followed by exactly one send_email call, whose subject contains the
\* agent name; a notification the relay accepted leaves the loop at its sleep,
\* from where it polls again (up to the MaxPolls polls of the model); so the
\* notifications issued equal the failed polls, and so do the notifications
\* delivered as long as the loop is alive.
C4_NotifyEveryFailedPoll ==
    /\ [](calls["send_email"] = IF pc = "send_email" THEN failedPolls - 1 ELSE failedPolls)
    /\ [](pc \in {"poll", "sleep"} => emailsSent = failedPolls)
    /\ [](calls["send_email"] > 0 => Contains(subject, agent_name))
    /\ [][emailsSent' = emailsSent + 1 =>
             /\ pc = "send_email"
             /\ pc' = "sleep"
             /\ calls["send_email"]' = calls["send_email"] + 1]_vars
    /\ (pc = "sleep" /\ event = "FAILED" /\ polls < MaxPolls) ~> (pc = "poll")

C4_Witness ==
    /\ polls = 2
    /\ failedPolls = 2
    /\ emailsSent = 2
    /\ calls["send_email"] = 2
    /\ returncode = 3
    /\ pc = "poll"
    /\ Contains(subject, agent_name)

\* C5: a poll whose status command returned 0 takes the RUNNING branch (one
\* informational log line, no notification), and a poll whose status command
\* returned any other code takes the FAILED branch (send_email is the next
\* statement); the branch is a function of the return code alone.
C5_PollMapsStatusCode ==
    /\ [](event # "none" => (event = IF returncode = 0 THEN "RUNNING" ELSE "FAILED"))
    /\ [][(polls' = polls + 1 /\ pc' # "exit") =>
             IF returncode' = 0
             THEN /\ event' = "RUNNING"
                  /\ pc' = "sleep"
                  /\ infoLogs' = infoLogs + 1
                  /\ calls' = calls
             ELSE /\ event' = "FAILED"
                  /\ pc' = "send_email"
                  /\ infoLogs' = infoLogs]_vars
    /\ [][calls["send_email"]' # calls["send_email"] => event = "FAILED"]_vars

C5_Witness ==
    /\ polls = 3
    /\ failedPolls = 2
    /\ infoLogs = 1
    /\ event = "FAILED"
    /\ returncode = -9
    /\ pc = "send_email"

\* The phases of main in their order; the monitor is phase 6.
Phase(op) ==
    CASE op = "get_csrf_token" -> 1
      [] op = "check_agent_exists" -> 2
      [] op = "create_agent" -> 3
      [] op = "download_agent_jar" -> 4
      [] op = "install_service" -> 5
      [] OTHER -> 6

Provisioning == {"get_csrf_token", "check_agent_exists", "create_agent",
                 "download_agent_jar", "install_service"}

\* The operations that must have returned normally before op is invoked.
Before(op) ==
    {o \in Provisioning : Phase(o) < Phase(op) /\ (o = "create_agent" => exists = "False")}

\* C6: the phases run in strict sequence. An operation is invoked only after
\* every earlier phase returned normally (create_agent being a phase only when
\* the check returned False); the monitor is entered, and polls, only after
\* the check, the registration where required, the download and the service
\* installation all returned normally; and once the monitor is entered no
\* registration or installation step occurs.
C6_StrictPhases ==
    /\ [](\A op \in Provisioning : calls[op] > 0 => Before(op) \subseteq done)
    /\ [](calls["create_agent"] > 0 => exists = "False")
    /\ [](InMonitor =>
            /\ Before("send_email") \subseteq done
            /\ exists \in {"True", "False"}
            /\ jarWritten
            /\ startedService # <<>>)
    /\ [][InMonitor =>
             /\ \A op \in Provisioning : calls[op]' = calls[op]
             /\ UNCHANGED <<registered, exists, fsVars, procs, startedService>>]_vars

C6_Witness ==
    /\ polls = 2
    /\ exists = "False"
    /\ Provisioning \subseteq done
    /\ calls["send_email"] = 1

\* The side effects of the phases after op have not happened.
NothingAfter(op) ==
    /\ \A o \in Provisioning : Phase(o) > Phase(op) => calls[o] = 0
    /\ polls = 0
    /\ calls["send_email"] = 0
    /\ service_status_cmd = <<>>
    /\ Phase(op) < 4 => (~dirCreated /\ ~jarWritten)
    /\ Phase(op) < 5 => (unitFile = <<>> /\ procs = <<>>)
    /\ startedService = <<>>

\* C7: fail fast, no retry. Each of get_csrf_token, check_agent_exists,
\* create_agent, download_agent_jar and the platform's service installation is
\* invoked at most once in a run; the failure of any of them ends the process
\* in that very step; nothing of a later phase has happened then; and a
\* process that has ended takes no further step.
C7_FailFast ==
    /\ [](\A op \in Provisioning : calls[op] <= 1)
    /\ [](failedOp \in Provisioning =>
            /\ pc = "exit"
            /\ exit.kind \notin {"return", "KeyboardInterrupt"}
            /\ failedOp \notin done
            /\ NothingAfter(failedOp))
    /\ [][pc = "exit" => UNCHANGED vars]_vars

C7_Witness ==
    /\ failedOp = "create_agent"
    /\ exit = Raise("SystemExit", "Error: Failed to create agent")
    /\ pc = "exit"
    /\ calls["create_agent"] = 1
    /\ calls["download_agent_jar"] = 0

\* C8: a send the relay refused (an error while connecting, authenticating or
\* sending) ends the process in that very step with send_email's own
\* SystemExit, which the handler of monitor_service leaves as it is; no poll
\* and no notification follows.
C8_SendFailureFatal ==
    /\ [](sendFailures > 0 =>
            /\ sendFailures = 1
            /\ pc = "exit"
            /\ exit = Raise("SystemExit", "Error sending email"))
    /\ [][sendFailures > 0 => UNCHANGED <<polls, calls, emailsSent>>]_vars

C8_Witness ==
    /\ sendFailures = 1
    /\ emailsSent = 1
    /\ polls = 2
    /\ pc = "exit"
    /\ exit.val = "Error sending email"

\* C9: check_agent_exists returns True exactly when the endpoint answered 200
\* and False exactly when it answered 404; on any other status code it returns
\* nothing and the run ends with the unexpected-response SystemExit, with
\* neither create_agent nor the installation invoked.
C9_CheckAgentExists ==
    calls["check_agent_exists"] > 0 =>
        /\ (exists = "True") = (checkStatus = 200)
        /\ (exists = "False") = (checkStatus = 404)
        /\ checkStatus \notin {0, 200, 404} =>
              /\ exists = "none"
              /\ pc = "exit"
              /\ exit = Raise("SystemExit", "Error: Unexpected response code")
              /\ calls["create_agent"] = 0
              /\ calls["download_agent_jar"] = 0
              /\ calls["install_service"] = 0
              /\ ~jarWritten

C9_Witness ==
    /\ checkStatus = 403
    /\ exists = "none"
    /\ pc = "exit"
    /\ exit.val = "Error: Unexpected response code"

\* C10: on Linux and on Windows the service the monitor's status command names
\* is the service the installer created and started in the same run, whenever
\* a poll has given a RUNNING or FAILED result.
C10_MonitorsInstalledService ==
    event # "none" => service_status_cmd = startedService

====
